---- MODULE Spec2Model ----
(***************************************************************************)
(* Four-pillar (BaZi) chart computation of src/app.py: the calendrical     *)
(* helpers, the pillar resolver, the luck-cycle engine, the table          *)
(* functions, and the handlers of the search and chart buttons.            *)
(*                                                                         *)
(* Time is counted in ticks of 1/TicksPerSecond second since               *)
(* 2018-01-01 00:00:00 UTC.  A Python datetime is the tick count of its    *)
(* wall clock; a Julian day (float, UT) is the tick count of its instant.  *)
(***************************************************************************)
EXTENDS Integers, Sequences, FiniteSets, TLC

VARIABLES
    eph,    \* the ephemeris collaborator (swisseph) answering this run
    fn,     \* function harness: the function applied ("none" before the call)
    arg,    \* function harness: its arguments
    ret,    \* function harness: its result
    pc,     \* chart button handler: position in the script
    req,    \* chart button handler: the widgets' values of this run
    loc,    \* chart button handler: local variables assigned so far
    out,    \* chart button handler: what the page shows (st.success/warning/error)
    search  \* search button handler: position, attempts, st.session_state

vars == <<eph, fn, arg, ret, pc, req, loc, out, search>>

-----------------------------------------------------------------------------
(* Bounds of the model *)

TicksPerSecond == 4
GridDays == 3
NearTicks == 1
MaxLuckMinutes == 4400

(* Units *)
SecondTicks == TicksPerSecond
MinuteTicks == 60 * TicksPerSecond
HourTicks == 3600 * TicksPerSecond
DayTicks == 86400 * TicksPerSecond

Abs(a) == IF a < 0 THEN -a ELSE a

-----------------------------------------------------------------------------
(* Constants of the program *)

STEMS == <<"Jia", "Yi", "Bing", "Ding", "Wu", "Ji", "Geng", "Xin", "Ren", "Gui">>
BRANCHES == <<"zi", "chou", "yin", "mao", "chen", "si", "wu", "wei", "shen", "you", "xu", "hai">>

StemSet == {STEMS[i] : i \in 1..10}
BranchSet == {BRANCHES[i] : i \in 1..12}

\* STEMS[i], BRANCHES[i] and list.index, with Python's 0-based indices
StemAt(i) == STEMS[i + 1]
BranchAt(i) == BRANCHES[i + 1]
StemIndex(s) == CHOOSE i \in 0..9 : STEMS[i + 1] = s
BranchIndex(b) == CHOOSE i \in 0..11 : BRANCHES[i + 1] = b

\* (name, longitude, branch) of the 12 terms that start a month
MAJOR_TERMS == <<
    <<"ipchun", 315, "yin">>,  <<"gyeongchip", 345, "mao">>,
    <<"cheongmyeong", 15, "chen">>, <<"ipha", 45, "si">>,
    <<"mangjong", 75, "wu">>,  <<"soseo", 105, "wei">>,
    <<"ipchu", 135, "shen">>,  <<"baengno", 165, "you">>,
    <<"hallo", 195, "xu">>,    <<"ipdong", 225, "hai">>,
    <<"daeseol", 255, "zi">>,  <<"sohan", 285, "chou">> >>

\* (name, longitude) of the 24 solar terms
SOLAR_TERMS_24 == <<
    <<"ipchun", 315>>, <<"usu", 330>>, <<"gyeongchip", 345>>, <<"chunbun", 0>>,
    <<"cheongmyeong", 15>>, <<"gogu", 30>>, <<"ipha", 45>>, <<"soman", 60>>,
    <<"mangjong", 75>>, <<"haji", 90>>, <<"soseo", 105>>, <<"daeseo", 120>>,
    <<"ipchu", 135>>, <<"cheoseo", 150>>, <<"baengno", 165>>, <<"chubun", 180>>,
    <<"hallo", 195>>, <<"sanggang", 210>>, <<"ipdong", 225>>, <<"soseol", 240>>,
    <<"daeseol", 255>>, <<"dongji", 270>>, <<"sohan", 285>>, <<"daehan", 300>> >>

Y_STEM_TO_YIN_MONTH_STEM ==
    [s \in StemSet |->
        CASE s \in {"Jia", "Ji"}   -> "Bing"
          [] s \in {"Yi", "Geng"}  -> "Wu"
          [] s \in {"Bing", "Xin"} -> "Geng"
          [] s \in {"Ding", "Ren"} -> "Ren"
          [] OTHER                 -> "Jia"]

D_STEM_TO_ZI_HOUR_STEM ==
    [s \in StemSet |->
        CASE s \in {"Jia", "Ji"}   -> "Jia"
          [] s \in {"Yi", "Geng"}  -> "Bing"
          [] s \in {"Bing", "Xin"} -> "Wu"
          [] s \in {"Ding", "Ren"} -> "Geng"
          [] OTHER                 -> "Ren"]

-----------------------------------------------------------------------------
(* Calendar: Python's datetime (proleptic Gregorian ordinals) and the      *)
(* ephemeris library's julday / revjul.                                    *)

IsLeap(y) == (y % 4 = 0) /\ ((y % 100 # 0) \/ (y % 400 = 0))

DaysInMonth(y, m) ==
    IF m = 2 THEN (IF IsLeap(y) THEN 29 ELSE 28)
    ELSE IF m \in {4, 6, 9, 11} THEN 30 ELSE 31

RECURSIVE DaysBeforeMonth(_, _)
DaysBeforeMonth(y, m) ==
    IF m = 1 THEN 0 ELSE DaysBeforeMonth(y, m - 1) + DaysInMonth(y, m - 1)

\* datetime.date.toordinal: 0001-01-01 is day 1
Ymd2Ord(y, m, d) ==
    LET p == y - 1
    IN  p * 365 + (p \div 4) - (p \div 100) + (p \div 400) + DaysBeforeMonth(y, m) + d

\* datetime.date.fromordinal (CPython's _ord2ymd)
Ord2Ymd(ord) ==
    LET n0   == ord - 1
        n400 == n0 \div 146097
        r400 == n0 % 146097
        n100 == r400 \div 36524
        r100 == r400 % 36524
        n4   == r100 \div 1461
        r4   == r100 % 1461
        n1   == r4 \div 365
        r1   == r4 % 365
        year == n400 * 400 + n100 * 100 + n4 * 4 + n1 + 1
    IN  IF n1 = 4 \/ n100 = 4
        THEN <<year - 1, 12, 31>>
        ELSE LET m == CHOOSE k \in 1..12 :
                          /\ DaysBeforeMonth(year, k) <= r1
                          /\ r1 < DaysBeforeMonth(year, k) + DaysInMonth(year, k)
             IN  <<year, m, r1 - DaysBeforeMonth(year, m) + 1>>

\* swe.julday(y, m, d, 0.0, GREG_CAL) + 0.5: the Julian Day Number of a civil date
JulDayNumber(y, m, d) ==
    LET yy == IF m <= 2 THEN y - 1 ELSE y
        mm == IF m <= 2 THEN m + 12 ELSE m
        a  == yy \div 100
        b  == 2 - a + (a \div 4)
    IN  ((1461 * (yy + 4716)) \div 4) + ((306001 * (mm + 1)) \div 10000) + d + b - 1524

\* the civil date of swe.revjul(jd, GREG_CAL) for the day whose number is jdn
RevJulDate(jdn) ==
    LET alpha == (4 * jdn - 7468865) \div 146097
        a == jdn + 1 + alpha - (alpha \div 4)
        b == a + 1524
        c == (20 * b - 2442) \div 7305
        d == (1461 * c) \div 4
        e == ((b - d) * 10000) \div 306001
        day == b - d - ((306001 * e) \div 10000)
        month == IF e < 14 THEN e - 1 ELSE e - 13
        year == IF month > 2 THEN c - 4716 ELSE c - 4715
    IN  <<year, month, day>>

EpochOrd == Ymd2Ord(2018, 1, 1)
EpochJDN == JulDayNumber(2018, 1, 1)

\* datetime(y, m, d, 0, 0, 0): the tick of a civil date's midnight
DateTicks(y, m, d) == (Ymd2Ord(y, m, d) - EpochOrd) * DayTicks

\* datetime.date(), .year, .time() of a datetime
DateOf(t) == Ord2Ymd(EpochOrd + (t \div DayTicks))
YearOf(t) == DateOf(t)[1]
TimeOfDay(t) == t % DayTicks

\* swe.julday(y, m, d, 0.0, GREG_CAL) as an instant
julday0(y, m, d) == (JulDayNumber(y, m, d) - EpochJDN) * DayTicks

\* Python's round(): half to even; n / d with d > 0
RoundHalfEven(n, d) ==
    LET q == n \div d
        r == n % d
    IN  IF 2 * r < d THEN q
        ELSE IF 2 * r > d THEN q + 1
        ELSE IF q % 2 = 0 THEN q ELSE q + 1

jd_ut_from_utc(dt_utc) ==
    LET ymd == DateOf(dt_utc)
    IN  julday0(ymd[1], ymd[2], ymd[3]) + TimeOfDay(dt_utc)

utc_from_jd_ut(jd_ut) ==
    LET ymd == RevJulDate(EpochJDN + (jd_ut \div DayTicks))
        hour == jd_ut % DayTicks
        hh == hour \div HourTicks
        minute == (hour - hh * HourTicks) \div MinuteTicks
        sec == RoundHalfEven(hour - hh * HourTicks - minute * MinuteTicks, SecondTicks)
        sec1 == IF sec = 60 THEN 0 ELSE sec
        minute1 == IF sec = 60 THEN minute + 1 ELSE minute
        minute2 == IF minute1 = 60 THEN 0 ELSE minute1
        hh1 == IF minute1 = 60 THEN hh + 1 ELSE hh
    IN  DateTicks(ymd[1], ymd[2], ymd[3])
            + hh1 * HourTicks + minute2 * MinuteTicks + sec1 * SecondTicks

-----------------------------------------------------------------------------
(* The ephemeris (swisseph): the Sun's crossings of the 24 term longitudes *)
(* from December 2018 to February 2024, in seconds since the epoch, one    *)
(* row per entry of SOLAR_TERMS_24.                                        *)

TermCrossSeconds == <<
    <<34485400, 66042408, 97599370, 129156287, 160713165, 192270015>>,
    <<35766471, 67323470, 98880423, 130437331, 161994200>>,
    <<37055589, 68612577, 100169518, 131726415, 163283272>>,
    <<38354542, 69911516, 101468444, 133025326, 164582170>>,
    <<39664492, 71221452, 102778365, 134335232, 165892060>>,
    <<40985881, 72542826, 104099723, 135656575, 167213388>>,
    <<42318368, 73875298, 105432181, 136989017, 168545816>>,
    <<43660828, 75217746, 106774615, 138331438, 169888223>>,
    <<45011407, 76568314, 108125172, 139681984, 171238758>>,
    <<46367638, 77924536, 109481386, 141038190, 172594957>>,
    <<47726620, 79283514, 110840359, 142397159, 173953921>>,
    <<49085237, 80642130, 112198975, 143755774, 175312536>>,
    <<50440404, 81997299, 113554146, 145110949, 176667715>>,
    <<51789300, 83346202, 114903055, 146459863, 178016636>>,
    <<53129589, 84686499, 116243360, 147800178, 179356961>>,
    <<54459576, 86016495, 117573368, 149130196, 180686991>>,
    <<55778315, 87335245, 118892129, 150448970, 182005778>>,
    <<57085649, 88642591, 120199486, 151756339, 183313160>>,
    <<58382194, 89939146, 121496052, 153052916, 184609749>>,
    <<59669268, 91226228, 122783143, 154340017, 185896860>>,
    <<29391772, 60948784, 92505751, 124062672, 155619554, 187176405>>,
    <<30666101, 62223117, 93780087, 125337013, 156893898, 188450754>>,
    <<31937933, 63494949, 95051920, 126608846, 158165732, 189722590>>,
    <<33210096, 64767109, 96324077, 127881001, 159437885, 190994740>> >>

LonRow(lon) == CHOOSE i \in 1..24 : SOLAR_TERMS_24[i][2] = lon

\* every instant at which the Sun crosses longitude lon
Crossings(lon) ==
    LET row == TermCrossSeconds[LonRow(lon)]
    IN  {row[k] * TicksPerSecond + eph.jit : k \in 1..Len(row)}

SetMin(S) == CHOOSE x \in S : \A y \in S : x <= y
SetMax(S) == CHOOSE x \in S : \A y \in S : x >= y

\* swe.solcross_ut(lon, jd_start, FLG_SWIEPH): the next crossing of lon from
\* jd_start on.  Whether a crossing exactly at jd_start counts is the
\* library's choice (eph.strict); eph.skip > 0 is an ephemeris that answers
\* with a later revolution's crossing; eph.fail names the stage ("pillars",
\* "luck") in which the library raises swe.Error, "none" when it never does.
solcross_ut(lon, jd_start) ==
    LET later == {c \in Crossings(lon) :
                      IF eph.strict THEN c > jd_start ELSE c >= jd_start}
        first == SetMin(later)
    IN  IF eph.skip = 0 THEN first ELSE SetMin({c \in later : c > first})

-----------------------------------------------------------------------------
(* Pillar resolver *)

\* line 485: the birth instant precedes the 315-degree crossing
BeforeLichunInclusive(jd_ut_birth, lichun) == jd_ut_birth <= lichun
BeforeLichun(jd_ut_birth, lichun) == jd_ut_birth < lichun

year_pillar(jd_ut_birth) ==
    LET birth_utc == utc_from_jd_ut(jd_ut_birth)
        y0 == YearOf(birth_utc)
        lichun0 == solcross_ut(315, julday0(y0, 1, 1) - 5 * DayTicks)
        before == BeforeLichun(jd_ut_birth, lichun0)
        y == IF before THEN y0 - 1 ELSE y0
        lichun == IF before
                  THEN solcross_ut(315, julday0(y, 1, 1) - 5 * DayTicks)
                  ELSE lichun0
        idx == (y - 1984) % 60
    IN  [stem |-> StemAt(idx % 10), branch |-> BranchAt(idx % 12),
         year |-> y, lichun |-> lichun]

\* line 501: a crossing at or before birth replaces best when it is later
MonthBetterEarliest(jx, best) == (Len(best) = 0) \/ (jx < best[4])
MonthBetter(jx, best) == (Len(best) = 0) \/ (jx > best[4])

\* the loop of month_pillar over MAJOR_TERMS[i..]; best is <<>> for None
RECURSIVE MonthScan(_, _, _)
MonthScan(i, jd_ut_birth, best) ==
    IF i > Len(MAJOR_TERMS) THEN best
    ELSE LET term == MAJOR_TERMS[i]
             jx == solcross_ut(term[2], jd_ut_birth - 40 * DayTicks)
         IN  MonthScan(i + 1, jd_ut_birth,
                 IF jx <= jd_ut_birth /\ MonthBetter(jx, best)
                 THEN <<term[1], term[2], term[3], jx>>
                 ELSE best)

\* lines 503-505: what month_pillar does when the loop found no crossing
MonthNotFound(jd_ut_birth) ==
    <<MAJOR_TERMS[1][1], MAJOR_TERMS[1][2], MAJOR_TERMS[1][3],
      solcross_ut(MAJOR_TERMS[1][2], jd_ut_birth - 80 * DayTicks)>>

MonthOrder == <<"yin", "mao", "chen", "si", "wu", "wei", "shen", "you", "xu", "hai", "zi", "chou">>

\* the result carries found (no field of the code: whether the loop found a
\* crossing) and raised (the exception raised, "" for a normal return)
month_pillar(jd_ut_birth, year_stem) ==
    LET scan == MonthScan(1, jd_ut_birth, <<>>)
        best == IF Len(scan) = 0 THEN MonthNotFound(jd_ut_birth) ELSE scan
        m_branch == best[3]
        m_idx == (CHOOSE k \in 1..12 : MonthOrder[k] = m_branch) - 1
        base == StemIndex(Y_STEM_TO_YIN_MONTH_STEM[year_stem])
    IN  [stem |-> StemAt((base + m_idx) % 10), branch |-> m_branch,
         term |-> best[1], term_jd |-> best[4],
         found |-> Len(scan) > 0, raised |-> ""]

\* line 459: the time of day is in the early Zi hour (23:00 on)
IsEarlyZiAfter(tod) == tod > 23 * HourTicks
IsEarlyZi(tod) == tod >= 23 * HourTicks

\* the result is a date <<y, m, d>>; date + timedelta(days=1) goes by ordinal
early_zi_shift(date_dt) ==
    LET date == DateOf(date_dt)
    IN  IF IsEarlyZi(TimeOfDay(date_dt))
        THEN Ord2Ymd(Ymd2Ord(date[1], date[2], date[3]) + 1)
        ELSE date

\* lines 466-469 with the stem and the branch taken from different offsets
SexagenaryFromJdnSplit(jdn) ==
    <<StemAt((jdn + 49) % 10), BranchAt((jdn + 50) % 12)>>

sexagenary_from_jdn(jdn) ==
    LET idx == (jdn + 49) % 60
    IN  <<StemAt(idx % 10), BranchAt(idx % 12)>>

jdn_from_gregorian_date(y, m, d) == JulDayNumber(y, m, d)

\* use_early_zi is fixed to True at line 757
day_pillar(lat_dt) ==
    LET day_date == early_zi_shift(lat_dt)
        jdn == jdn_from_gregorian_date(day_date[1], day_date[2], day_date[3])
        sb == sexagenary_from_jdn(jdn)
    IN  [stem |-> sb[1], branch |-> sb[2], date |-> day_date, jdn |-> jdn]

\* line 532-533: minutes = hour*60 + minute + second/60 (microseconds dropped),
\* branch index = ((minutes + 60) // 120) % 12, here in whole seconds
HourBranchIdxNoOffset(tod) == (((tod \div SecondTicks)) \div 7200) % 12
HourBranchIdx(tod) == (((tod \div SecondTicks) + 3600) \div 7200) % 12

hour_pillar(lat_dt, day_stem) ==
    LET h_branch_idx == HourBranchIdx(TimeOfDay(lat_dt))
        base == StemIndex(D_STEM_TO_ZI_HOUR_STEM[day_stem])
    IN  [stem |-> StemAt((base + h_branch_idx) % 10), branch |-> BranchAt(h_branch_idx)]

-----------------------------------------------------------------------------
(* Luck cycle engine *)

IsYangStemOdd(stem) == stem \in {"Yi", "Ding", "Ji", "Xin", "Gui"}
is_yang_stem(stem) == stem \in {"Jia", "Bing", "Wu", "Geng", "Ren"}

\* gender is "nam" (male) or "yeo" (female); the result is "sunhaeng"
\* (forward) or "yeokhaeng" (backward)
luck_direction(year_stem, gender) ==
    LET yang == is_yang_stem(year_stem)
    IN  IF (gender = "nam" /\ yang) \/ (gender = "yeo" /\ ~yang)
        THEN "sunhaeng" ELSE "yeokhaeng"

\* line 393: a crossing counts for the forward search
AdjAfterInclusive(jx, jd_ut_birth) == jx >= jd_ut_birth
AdjAfter(jx, jd_ut_birth) == jx > jd_ut_birth

\* the forward loop of adjacent_solar_term over SOLAR_TERMS_24[i..]
RECURSIVE AdjForwardScan(_, _, _)
AdjForwardScan(i, jd_ut_birth, best) ==
    IF i > Len(SOLAR_TERMS_24) THEN best
    ELSE LET term == SOLAR_TERMS_24[i]
             jx == solcross_ut(term[2], jd_ut_birth)
         IN  AdjForwardScan(i + 1, jd_ut_birth,
                 IF AdjAfter(jx, jd_ut_birth) /\ (Len(best) = 0 \/ jx < best[3])
                 THEN <<term[1], term[2], jx>>
                 ELSE best)

\* the backward loop of adjacent_solar_term
RECURSIVE AdjBackwardScan(_, _, _)
AdjBackwardScan(i, jd_ut_birth, best) ==
    IF i > Len(SOLAR_TERMS_24) THEN best
    ELSE LET term == SOLAR_TERMS_24[i]
             jx == solcross_ut(term[2], jd_ut_birth - 40 * DayTicks)
         IN  AdjBackwardScan(i + 1, jd_ut_birth,
                 IF jx <= jd_ut_birth /\ (Len(best) = 0 \/ jx > best[3])
                 THEN <<term[1], term[2], jx>>
                 ELSE best)

\* the result is <<term_name, term_lon, term_jd_ut>>
adjacent_solar_term(jd_ut_birth, forward) ==
    IF forward
    THEN LET best == AdjForwardScan(1, jd_ut_birth, <<>>)
         IN  IF Len(best) = 0
             THEN <<SOLAR_TERMS_24[1][1], SOLAR_TERMS_24[1][2],
                    solcross_ut(SOLAR_TERMS_24[1][2], jd_ut_birth + DayTicks)>>
             ELSE best
    ELSE LET best == AdjBackwardScan(1, jd_ut_birth, <<>>)
         IN  IF Len(best) = 0
             THEN <<SOLAR_TERMS_24[24][1], SOLAR_TERMS_24[24][2],
                    solcross_ut(SOLAR_TERMS_24[24][2], jd_ut_birth - 80 * DayTicks)>>
             ELSE best

\* lines 431-437: days >= 30 roll into months, months >= 12 into years
LuckNoCarry(years, months, days) == <<years, months, days>>
LuckNormalize(years, months, days) ==
    LET months1 == IF days >= 30 THEN months + (days \div 30) ELSE months
        days1 == IF days >= 30 THEN days % 30 ELSE days
        years1 == IF months1 >= 12 THEN years + (months1 \div 12) ELSE years
        months2 == IF months1 >= 12 THEN months1 % 12 ELSE months1
    IN  <<years1, months2, days1>>

\* total_minutes is a float: here total / MinuteTicks minutes
minutes_to_luck_ymd(total) ==
    LET total_minutes == IF total < 0 THEN -total ELSE total
        years == total_minutes \div (4320 * MinuteTicks)
        rem == total_minutes - years * 4320 * MinuteTicks
        months == rem \div (360 * MinuteTicks)
        rem1 == rem - months * 360 * MinuteTicks
        days == RoundHalfEven(rem1, 12 * MinuteTicks)
    IN  LuckNormalize(years, months, days)

\* the loop of lines 449-452 counting from 0 instead of 1
RECURSIVE LuckPillarsFromZero(_, _, _, _, _)
LuckPillarsFromZero(i, count, si, bi, step) ==
    IF i > count THEN <<>>
    ELSE <<<<StemAt((si + step * (i - 1)) % 10), BranchAt((bi + step * (i - 1)) % 12)>>>>
             \o LuckPillarsFromZero(i + 1, count, si, bi, step)

\* the pillars i..count of build_luck_pillars, each <<stem, branch>>
RECURSIVE LuckPillarsFrom(_, _, _, _, _)
LuckPillarsFrom(i, count, si, bi, step) ==
    IF i > count THEN <<>>
    ELSE <<<<StemAt((si + step * i) % 10), BranchAt((bi + step * i) % 12)>>>>
             \o LuckPillarsFrom(i + 1, count, si, bi, step)

build_luck_pillars(month_stem, month_branch, direction, count) ==
    LET step == IF direction = "sunhaeng" THEN 1 ELSE -1
    IN  LuckPillarsFrom(1, count, StemIndex(month_stem), BranchIndex(month_branch), step)

\* the five elements by index: 0 wood, 1 fire, 2 earth, 3 metal, 4 water
STEM_ELEMENTS == <<0, 0, 1, 1, 2, 2, 3, 3, 4, 4>>
BRANCH_ELEMENTS == <<4, 2, 0, 0, 2, 1, 1, 2, 3, 3, 2, 4>>

\* the twelve stages, jangsaeng (growth) at index 3
UNSEONG_ORDER == <<"jeol", "tae", "yang", "jangsaeng", "mogyok", "gwandae",
                   "geonrok", "jewang", "soe", "byeong", "sa", "myo">>

\* the result is [raised, value]: get_element_idx has no raise statement
get_element_idx(char) ==
    IF char \in StemSet
    THEN [raised |-> "", value |-> STEM_ELEMENTS[StemIndex(char) + 1]]
    ELSE IF char \in BranchSet
    THEN [raised |-> "", value |-> BRANCH_ELEMENTS[BranchIndex(char) + 1]]
    ELSE [raised |-> "", value |-> 0]

\* start_map of get_12unseong: (branch of jangsaeng, direction) by stem
UnseongStartMap(stem) ==
    CASE stem = "Jia" -> <<"hai", 1>>
      [] stem = "Bing" -> <<"yin", 1>>
      [] stem = "Wu" -> <<"yin", 1>>
      [] stem = "Geng" -> <<"si", 1>>
      [] stem = "Ren" -> <<"shen", 1>>
      [] stem = "Yi" -> <<"wu", -1>>
      [] stem = "Ding" -> <<"you", -1>>
      [] stem = "Ji" -> <<"you", -1>>
      [] stem = "Xin" -> <<"zi", -1>>
      [] stem = "Gui" -> <<"mao", -1>>

\* line 112 without the offset of jangsaeng
UnseongFinalIdxNoOffset(diff) == diff % 12
UnseongFinalIdx(diff) == (3 + diff) % 12

get_12unseong(stem, branch) ==
    LET start_idx == BranchIndex(UnseongStartMap(stem)[1])
        direction == UnseongStartMap(stem)[2]
        target_idx == BranchIndex(branch)
        diff == IF direction = 1 THEN (target_idx - start_idx) % 12
                ELSE (start_idx - target_idx) % 12
    IN  UNSEONG_ORDER[UnseongFinalIdx(diff) + 1]

\* sexagenary_for_year: the year's pair by the fixed 1984 = Jia-zi rule
sexagenary_for_year(year) ==
    LET idx60 == (year - 1984) % 60
    IN  <<StemAt(idx60 % 10), BranchAt(idx60 % 12)>>

\* luck_row.get(key, default)
RowGet(row, key, default) == IF key \in DOMAIN row THEN row[key] ELSE default

\* build_10year_seun_table: start_age (360ths of a year) is read under the
\* key "start_age"; the first row's dict calls get_unseong_12, a name the
\* module never binds (the function defined is get_12unseong), so the call
\* ends in NameError before any row exists.  The result is
\* [raised, start_year (the local of line 675), rows]
build_10year_seun_table(luck_row, birth_solar_year, day_stem) ==
    LET start_age == RowGet(luck_row, "start_age", 0)
        start_year == birth_solar_year + (start_age \div 360)
    IN  [raised |-> "NameError", start_year |-> start_year, rows |-> <<>>]

-----------------------------------------------------------------------------
(* Time normalizer: parse_hms, the zone rules of zoneinfo, LMT and LAT *)

\* a time string is the sequence of its ":"-separated parts; a part is
\* [digits |-> whether int() accepts it, n |-> its value]
Part(n) == [digits |-> TRUE, n |-> n]
NotANumber == [digits |-> FALSE, n |-> 0]

\* parse_hms without the range test of lines 221-222
ParseHmsNoRange(parts) ==
    IF Len(parts) \notin {2, 3}
    THEN [ok |-> FALSE, time |-> 0, msg |-> "format"]
    ELSE IF \E i \in 1..Len(parts) : ~parts[i].digits
    THEN [ok |-> FALSE, time |-> 0, msg |-> "digits"]
    ELSE [ok |-> TRUE,
          time |-> parts[1].n * HourTicks + parts[2].n * MinuteTicks
                     + (IF Len(parts) = 3 THEN parts[3].n ELSE 0) * SecondTicks,
          msg |-> ""]

\* the result is [ok, time (ticks since midnight), msg (of the ValueError)]
parse_hms(parts) ==
    IF Len(parts) \notin {2, 3}
    THEN [ok |-> FALSE, time |-> 0, msg |-> "format"]
    ELSE IF \E i \in 1..Len(parts) : ~parts[i].digits
    THEN [ok |-> FALSE, time |-> 0, msg |-> "digits"]
    ELSE LET hh == parts[1].n
             mm == parts[2].n
             ss == IF Len(parts) = 3 THEN parts[3].n ELSE 0
         IN  IF ~(0 <= hh /\ hh <= 23 /\ 0 <= mm /\ mm <= 59 /\ 0 <= ss /\ ss <= 59)
             THEN [ok |-> FALSE, time |-> 0, msg |-> "range"]
             ELSE [ok |-> TRUE,
                   time |-> hh * HourTicks + mm * MinuteTicks + ss * SecondTicks,
                   msg |-> ""]

\* the places of the model: lonQ is lon * 240 s in quarter seconds, tz the
\* answer of TimezoneFinder ("" for None)
Places == {
    [name |-> "Seoul", lonQ |-> 121899, tz |-> "Asia/Seoul"],
    [name |-> "StJohns", lonQ |-> -50604, tz |-> "America/St_Johns"],
    [name |-> "MidAtlantic", lonQ |-> -28800, tz |-> ""] }

\* timedelta(seconds=lon * 240.0)
LonTicks(place) == (place.lonQ * TicksPerSecond) \div 4

get_timezone_name(place) == place.tz

\* ZoneInfo(tz_name): the offset before the first transition, and the
\* transitions (UTC instant in seconds since the epoch, offset from then on)
ZoneRules(tz_name) ==
    CASE tz_name = "Asia/Seoul" -> [base |-> 32400, trans |-> <<>>]
      [] tz_name = "America/St_Johns" ->
            [base |-> -12600,
             trans |-> << <<68880600, -9000>>, <<89440200, -12600>>,
                          <<100935000, -9000>>, <<121494600, -12600>> >>]
      [] OTHER -> [base |-> 0, trans |-> <<>>]

OffsetBefore(zone, i) == IF i = 1 THEN zone.base ELSE zone.trans[i - 1][2]

\* utcoffset of a UTC instant: the rule in force at that instant
RECURSIVE OffsetAtUtcFrom(_, _, _)
OffsetAtUtcFrom(zone, i, t) ==
    IF i = 0 THEN zone.base
    ELSE IF zone.trans[i][1] * TicksPerSecond <= t THEN zone.trans[i][2]
    ELSE OffsetAtUtcFrom(zone, i - 1, t)

\* utcoffset of a wall clock with fold = 0: a transition takes effect on the
\* wall clock at its instant plus the larger of the two offsets, so a
\* repeated hour is read as its first pass and a skipped hour by the old rule
RECURSIVE OffsetAtWallFrom(_, _, _)
OffsetAtWallFrom(zone, i, w) ==
    IF i = 0 THEN zone.base
    ELSE LET before == OffsetBefore(zone, i)
             after == zone.trans[i][2]
             larger == IF before > after THEN before ELSE after
         IN  IF (zone.trans[i][1] + larger) * TicksPerSecond <= w
             THEN after
             ELSE OffsetAtWallFrom(zone, i - 1, w)

\* naive.replace(tzinfo=ZoneInfo(tz_name)).astimezone(timezone.utc)
LocalToUtc(tz_name, naive) ==
    LET zone == ZoneRules(tz_name)
    IN  naive - OffsetAtWallFrom(zone, Len(zone.trans), naive) * TicksPerSecond

\* the wall clock of dt_utc.astimezone(ZoneInfo(tz_name))
UtcToLocal(tz_name, dt_utc) ==
    LET zone == ZoneRules(tz_name)
    IN  dt_utc + OffsetAtUtcFrom(zone, Len(zone.trans), dt_utc) * TicksPerSecond

\* swe.time_equ(jd_ut) in ticks: the equation of time at mid-month, in
\* seconds, for the month of jd_ut
EotSeconds == <<-543, -851, -534, -2, 218, -30, -360, -270, 285, 854, 927, 292>>
time_equ(jd_ut) == EotSeconds[RevJulDate(EpochJDN + (jd_ut \div DayTicks))[2]] * TicksPerSecond

\* the LAT datetime of apparent_solar_datetime(utc_dt, lon)
apparent_solar_datetime(utc_dt, place) ==
    utc_dt + LonTicks(place) + time_equ(jd_ut_from_utc(utc_dt))

-----------------------------------------------------------------------------
(* Place search: geocode with its retry helper _get, and the search button *)

Providers == {"geoapify", "openmeteo", "nominatim"}

\* the tries= argument of the three _get calls (lines 280, 298, 322)
TriesAllThree(provider) == 3
Tries(provider) == IF provider = "geoapify" THEN 2 ELSE 3

NoAttempts == [p \in Providers |-> 0]

\* session is st.session_state: geocode_results, the index held by the
\* result select box, and the stored lat/lon (<<"default", 0>> while unset)
IdleSearch ==
    [pc |-> "idle", key |-> FALSE, place |-> "", attempts |-> NoAttempts,
     last |-> <<>>, error |-> <<>>,
     session |-> [results |-> <<>>, idx |-> 1, coords |-> <<"default", 0>>]]

\* lines 746-753: the chosen result's coordinates are stored on every run
Rerender(session) ==
    [session EXCEPT !.coords = IF session.results # <<>>
                               THEN session.results[session.idx] ELSE @]

\* lines 743-744: the handler of the search button; the script then runs on
SearchExcept(s, e) ==
    [s EXCEPT !.error = e, !.pc = "done", !.session = Rerender(s.session)]

\* line 742: geocode returned
SearchStore(s, results, idx) ==
    [s EXCEPT !.pc = "done",
              !.session = Rerender([results |-> results, idx |-> idx,
                                    coords |-> s.session.coords])]

\* what a place query finds when the provider has matches
Found(place) == << <<place, 1>>, <<place, 2>> >>

SearchTexts == {"", "Seoul", "StJohns"}

\* line 741: the button is clicked; an empty query returns [] at once
ClickSearch ==
    /\ search.pc \in {"idle", "done"}
    /\ \E place \in SearchTexts :
        LET s == [search EXCEPT !.place = place, !.attempts = NoAttempts,
                                !.last = <<>>, !.error = <<>>]
        IN  search' = IF place = ""
                      THEN SearchStore(s, <<>>, s.session.idx)
                      ELSE [s EXCEPT !.pc = IF s.key THEN "geoapify" ELSE "openmeteo"]
    /\ UNCHANGED <<eph, fn, arg, ret, pc, req, loc, out>>

\* the query went through the provider's request: raise_for_status and the
\* parsing of the answer (lines 281-293, 299-315, 323-332)
Respond(s, provider, answer, idx) ==
    CASE answer = "found" -> SearchStore(s, Found(s.place), idx)
      [] answer = "empty" ->
            IF provider = "openmeteo" THEN [s EXCEPT !.pc = "nominatim"]
            ELSE SearchStore(s, <<>>, idx)
      [] answer = "http_error" ->
            IF provider = "openmeteo" THEN [s EXCEPT !.pc = "nominatim"]
            ELSE SearchExcept(s, <<provider, 0, "http_error">>)

\* _get raised its last failure out of the loop (line 275)
Exhausted(s, provider) ==
    IF provider = "openmeteo" THEN [s EXCEPT !.pc = "nominatim"]
    ELSE SearchExcept(s, s.last)

\* one pass of the loop of _get (lines 270-274) for the provider in turn
GetAttempt ==
    /\ search.pc \in Providers
    /\ search.attempts[search.pc] < Tries(search.pc)
    /\ LET provider == search.pc
           n == search.attempts[provider] + 1
           s == [search EXCEPT !.attempts[provider] = n]
       IN  \E answer \in {"found", "empty", "http_error", "timeout", "connect"},
              idx \in {1, search.session.idx} :
               IF answer \in {"timeout", "connect"}
               THEN LET f == [s EXCEPT !.last = <<provider, n, answer>>]
                    IN  search' = IF n < Tries(provider) THEN f
                                  ELSE Exhausted(f, provider)
               ELSE search' = Respond(s, provider, answer, idx)
    /\ UNCHANGED <<eph, fn, arg, ret, pc, req, loc, out>>

\* line 749: another of the stored results is selected; the script reruns
ChooseResult ==
    /\ search.pc \in {"idle", "done"}
    /\ search.session.results # <<>>
    /\ \E idx \in 1..Len(search.session.results) :
        search' = [search EXCEPT !.session = Rerender([@ EXCEPT !.idx = idx]),
                                 !.error = <<>>]
    /\ UNCHANGED <<eph, fn, arg, ret, pc, req, loc, out>>

-----------------------------------------------------------------------------
(* The chart button handler (lines 760-937), one action per stage *)

NoLocals ==
    [naive |-> 0, tz_name |-> "", utc_dt |-> 0, jd_ut |-> 0, lat_dt |-> 0,
     pillars |-> <<>>, direction |-> "", term2 |-> <<>>, term2_utc |-> 0,
     delta |-> 0, ymd0 |-> <<>>, luck_pillars |-> <<>>, rows |-> <<>>]

\* what the page shows: error is st.error of the outer handler, luck_warning
\* st.warning of the luck block's handler, tiles the four pillars rendered
BlankPage ==
    [error |-> "", tz_warning |-> FALSE, success |-> FALSE, tiles |-> <<>>,
     luck_warning |-> "", luck |-> <<>>, seun |-> <<>>, tail |-> FALSE]

BirthDates == {DateTicks(2020, 2, 4), DateTicks(2020, 6, 15), DateTicks(2021, 11, 7)}

TimeStrings == {
    <<Part(1), Part(45), Part(0)>>, <<Part(13), Part(22), Part(7)>>,
    <<Part(12), Part(0)>>, <<Part(23), Part(30)>>,
    <<Part(12)>>, <<Part(1), Part(2), Part(3), Part(4)>>,
    <<NotANumber, Part(30)>>, <<Part(24), Part(0)>>,
    <<Part(12), Part(60)>>, <<Part(12), Part(0), Part(60)>>,
    <<Part(-1), Part(30)>> }

Requests ==
    [birth_date : BirthDates, time_str : TimeStrings, place : Places,
     basis : {"standard", "lmt"}, gender : {"nam", "yeo"}]

\* line 760: the button is clicked; the script reruns on a fresh page
ClickCompute ==
    /\ pc \in {"idle", "done"}
    /\ \E r \in Requests : req' = r
    /\ pc' = "parse"
    /\ loc' = NoLocals
    /\ out' = BlankPage
    /\ UNCHANGED <<search, eph, fn, arg, ret>>

\* lines 936-937: the outer handler
OuterExcept(page, e) == [page EXCEPT !.error = e]

\* lines 762-763
ParseTime ==
    /\ pc = "parse"
    /\ LET birth_time == parse_hms(req.time_str)
       IN  IF birth_time.ok
           THEN /\ loc' = [loc EXCEPT !.naive = req.birth_date + birth_time.time]
                /\ pc' = "tz"
                /\ out' = out
           ELSE /\ out' = OuterExcept(out, birth_time.msg)
                /\ pc' = "done"
                /\ loc' = loc
    /\ UNCHANGED <<search, eph, fn, arg, ret, req>>

\* lines 765-768
LookupTimezone ==
    /\ pc = "tz"
    /\ LET tz_name == get_timezone_name(req.place)
       IN  /\ loc' = [loc EXCEPT !.tz_name = IF tz_name = "" THEN "UTC" ELSE tz_name]
           /\ out' = [out EXCEPT !.tz_warning = (tz_name = "")]
    /\ pc' = "utc"
    /\ UNCHANGED <<search, eph, fn, arg, ret, req>>

\* lines 770-780
NormalizeTime ==
    /\ pc = "utc"
    /\ LET utc_dt == IF req.basis = "standard"
                     THEN LocalToUtc(loc.tz_name, loc.naive)
                     ELSE loc.naive - LonTicks(req.place)
       IN  loc' = [loc EXCEPT !.utc_dt = utc_dt,
                              !.jd_ut = jd_ut_from_utc(utc_dt),
                              !.lat_dt = apparent_solar_datetime(utc_dt, req.place)]
    /\ pc' = "pillars"
    /\ UNCHANGED <<search, eph, fn, arg, ret, req, out>>

\* lines 783-788: the four pillars, the month from the year's stem and the
\* hour from the day's stem
PillarTiles(y, m, d, h) ==
    [year |-> <<y.stem, y.branch>>, month |-> <<m.stem, m.branch>>,
     day |-> <<d.stem, d.branch>>, hour |-> <<h.stem, h.branch>>,
     pillar_year |-> y.year]

PillarsFrom(y, d, jd_ut, lat_dt) ==
    PillarTiles(y, month_pillar(jd_ut, y.stem), d, hour_pillar(lat_dt, d.stem))

FourPillars(jd_ut, lat_dt) ==
    PillarsFrom(year_pillar(jd_ut), day_pillar(lat_dt), jd_ut, lat_dt)

\* lines 783-793; an ephemeris error here goes to the outer handler
ComputePillars ==
    /\ pc = "pillars"
    /\ IF eph.fail = "pillars"
       THEN /\ out' = OuterExcept(out, "swe.Error")
            /\ pc' = "done"
            /\ loc' = loc
       ELSE LET p == FourPillars(loc.jd_ut, loc.lat_dt)
            IN  /\ loc' = [loc EXCEPT !.pillars = p]
                /\ out' = [out EXCEPT !.success = TRUE, !.tiles = p]
                /\ pc' = "luck_direction"
    /\ UNCHANGED <<search, eph, fn, arg, ret, req>>

\* lines 908-909: the handler of the luck block
LuckExceptReraise(page, e) == [page EXCEPT !.error = e]
LuckExcept(page, e) == [page EXCEPT !.luck_warning = e]

\* line 848
LuckDirection ==
    /\ pc = "luck_direction"
    /\ loc' = [loc EXCEPT !.direction = luck_direction(loc.pillars.year[1], req.gender)]
    /\ pc' = "luck_term"
    /\ UNCHANGED <<search, eph, fn, arg, ret, req, out>>

\* lines 849-850
LuckTerm ==
    /\ pc = "luck_term"
    /\ IF eph.fail = "luck"
       THEN /\ out' = LuckExcept(out, "swe.Error")
            /\ pc' = "tail"
            /\ loc' = loc
       ELSE LET term2 == adjacent_solar_term(loc.jd_ut, loc.direction = "sunhaeng")
            IN  /\ loc' = [loc EXCEPT !.term2 = term2,
                                      !.term2_utc = utc_from_jd_ut(term2[3])]
                /\ pc' = "luck_delta"
                /\ out' = out
    /\ UNCHANGED <<search, eph, fn, arg, ret, req>>

\* lines 852-864: the two clocks carry the same tzinfo, so their difference is
\* the difference of the wall clocks; delta is delta_min in ticks
DeltaMin(basis, tz_name, place, utc_dt, term2_utc, direction) ==
    LET birth_clock == IF basis = "standard" THEN UtcToLocal(tz_name, utc_dt)
                       ELSE utc_dt + LonTicks(place)
        term_clock == IF basis = "standard" THEN UtcToLocal(tz_name, term2_utc)
                      ELSE term2_utc + LonTicks(place)
        delta_min == term_clock - birth_clock
    IN  IF direction # "sunhaeng" THEN -delta_min ELSE delta_min

LuckDelta ==
    /\ pc = "luck_delta"
    /\ loc' = [loc EXCEPT !.delta = DeltaMin(req.basis, loc.tz_name, req.place,
                                             loc.utc_dt, loc.term2_utc, loc.direction)]
    /\ pc' = "luck_age"
    /\ UNCHANGED <<search, eph, fn, arg, ret, req, out>>

\* lines 875-887: the row dicts, their keys romanised (sunseo, daeun,
\* sijak(se), kkeut(se)) and the ages in 360ths of a year
RECURSIVE LuckRows(_, _, _)
LuckRows(i, luck_pillars, start_age) ==
    IF i > Len(luck_pillars) THEN <<>>
    ELSE <<[sunseo |-> i, daeun |-> luck_pillars[i],
            sijak_se |-> start_age + (i - 1) * 3600,
            kkeut_se |-> start_age + (i - 1) * 3600 + 3600]>>
             \o LuckRows(i + 1, luck_pillars, start_age)

\* lines 866-900
LuckAge ==
    /\ pc = "luck_age"
    /\ LET ymd0 == minutes_to_luck_ymd(loc.delta)
           luck_pillars == build_luck_pillars(loc.pillars.month[1], loc.pillars.month[2],
                                              loc.direction, 10)
           rows == LuckRows(1, luck_pillars, ymd0[1] * 360 + ymd0[2] * 30 + ymd0[3])
       IN  /\ loc' = [loc EXCEPT !.ymd0 = ymd0, !.luck_pillars = luck_pillars, !.rows = rows]
           /\ out' = [out EXCEPT !.luck = rows]
    /\ pc' = "seun"
    /\ UNCHANGED <<search, eph, fn, arg, ret, req>>

\* lines 902-904: the call names solar_year, which nothing defines
LuckSeun ==
    /\ pc = "seun"
    /\ out' = LuckExcept(out, "NameError")
    /\ pc' = "tail"
    /\ UNCHANGED <<search, eph, fn, arg, ret, req, loc>>

\* lines 912-934
RenderTail ==
    /\ pc = "tail"
    /\ out' = [out EXCEPT !.tail = TRUE]
    /\ pc' = "done"
    /\ UNCHANGED <<search, eph, fn, arg, ret, req, loc>>

\* before the first click
IdleHandler ==
    /\ pc = "idle"
    /\ req = <<>>
    /\ loc = NoLocals
    /\ out = BlankPage
    /\ search = IdleSearch

Init ==
    /\ eph \in [jit : 0..(TicksPerSecond - 1), strict : BOOLEAN, skip : {0},
                fail : {"none", "pillars", "luck"}]
    /\ fn = "none"
    /\ arg = <<>>
    /\ ret = <<>>
    /\ IdleHandler

Next ==
    \/ ClickCompute
    \/ ParseTime
    \/ LookupTimezone
    \/ NormalizeTime
    \/ ComputePillars
    \/ LuckDirection
    \/ LuckTerm
    \/ LuckDelta
    \/ LuckAge
    \/ LuckSeun
    \/ RenderTail

Spec == Init /\ [][Next]_vars

-----------------------------------------------------------------------------
(* Function harnesses: one call of one function on arguments drawn from    *)
(* bounded sets.                                                           *)

InitEph == eph \in [jit : 0..(TicksPerSecond - 1), strict : BOOLEAN, skip : {0}, fail : {"none"}]


InitFn ==
    /\ InitEph
    /\ fn = "none"
    /\ arg = <<>>
    /\ ret = <<>>
    /\ IdleHandler

FirstBirth == DateTicks(2020, 1, 1)
LastBirth == DateTicks(2022, 1, 1) - 1

\* every crossing of the table, for every jitter, with NearTicks ticks around
AllCrossSeconds == UNION {{TermCrossSeconds[i][k] : k \in 1..Len(TermCrossSeconds[i])} : i \in 1..24}
NearCrossings ==
    {c * TicksPerSecond + k : c \in AllCrossSeconds,
                              k \in (0 - NearTicks)..(TicksPerSecond - 1 + NearTicks)}

\* birth instants: a grid over 2020-2021, the instants around each crossing,
\* around the end of each search window, and around each new year
GridBirths ==
    {FirstBirth + k * GridDays * DayTicks + (k % 24) * HourTicks + (k % 7) * 517
        : k \in 0..(730 \div GridDays)}

BirthInstants ==
    {t \in     GridBirths
        \cup   NearCrossings
        \cup   {c + 40 * DayTicks : c \in NearCrossings}
        \cup   {DateTicks(y, 1, 1) + k : y \in {2020, 2021, 2022},
                                         k \in (0 - TicksPerSecond)..NearTicks}
      : t >= FirstBirth /\ t <= LastBirth}

\* times of day: around every full hour, and a grid of 7-minute steps
TimesOfDay ==
    {t \in     {h * HourTicks + k : h \in 0..24, k \in (0 - NearTicks)..NearTicks}
        \cup   {k * 7 * MinuteTicks + (k % 5) * 13 : k \in 0..205}
      : t >= 0 /\ t < DayTicks}

\* every calendar day of 2020 and 2021
Days == {FirstBirth + k * DayTicks : k \in 0..730}

CallYearPillar ==
    /\ fn = "none"
    /\ \E jd \in BirthInstants :
        /\ fn' = "year_pillar"
        /\ arg' = <<jd>>
        /\ ret' = year_pillar(jd)
    /\ UNCHANGED <<search, eph, pc, req, loc, out>>

CallMonthPillar ==
    /\ fn = "none"
    /\ \E jd \in BirthInstants :
       \E year_stem \in IF jd \in GridBirths THEN StemSet ELSE {year_pillar(jd).stem} :
        /\ fn' = "month_pillar"
        /\ arg' = <<jd, year_stem>>
        /\ ret' = month_pillar(jd, year_stem)
    /\ UNCHANGED <<search, eph, pc, req, loc, out>>

\* day_pillar at two LAT times of one calendar date: one before 23:00, one
\* at or after
CallDayPillar ==
    /\ fn = "none"
    /\ \E day \in Days,
          t1 \in {0, 12 * HourTicks + 1, 22 * HourTicks + 30 * MinuteTicks, 23 * HourTicks - 1},
          t2 \in {23 * HourTicks, 23 * HourTicks + 30 * MinuteTicks, DayTicks - 1} :
        /\ fn' = "day_pillar"
        /\ arg' = <<day, t1, t2>>
        /\ ret' = <<day_pillar(day + t1), day_pillar(day + t2)>>
    /\ UNCHANGED <<search, eph, pc, req, loc, out>>

CallHourPillar ==
    /\ fn = "none"
    /\ \E tod \in TimesOfDay, day_stem \in StemSet :
        /\ fn' = "hour_pillar"
        /\ arg' = <<DateTicks(2020, 2, 29) + tod, day_stem>>
        /\ ret' = hour_pillar(DateTicks(2020, 2, 29) + tod, day_stem)
    /\ UNCHANGED <<search, eph, pc, req, loc, out>>

CallAdjacentSolarTerm ==
    /\ fn = "none"
    /\ \E jd \in BirthInstants, forward \in BOOLEAN :
        /\ fn' = "adjacent_solar_term"
        /\ arg' = <<jd, forward>>
        /\ ret' = adjacent_solar_term(jd, forward)
    /\ UNCHANGED <<search, eph, pc, req, loc, out>>

NextEph ==
    \/ CallYearPillar
    \/ CallMonthPillar
    \/ CallAdjacentSolarTerm

SpecEph == InitFn /\ [][NextEph]_vars

\* the functions that ask the ephemeris nothing
InitPure ==
    /\ eph = [jit |-> 0, strict |-> FALSE, skip |-> 0, fail |-> "none"]
    /\ fn = "none"
    /\ arg = <<>>
    /\ ret = <<>>
    /\ IdleHandler

CallLuckDirection ==
    /\ fn = "none"
    /\ \E year_stem \in StemSet, gender \in {"nam", "yeo"} :
        /\ fn' = "luck_direction"
        /\ arg' = <<year_stem, gender>>
        /\ ret' = luck_direction(year_stem, gender)
    /\ UNCHANGED <<search, eph, pc, req, loc, out>>

\* minute counts: every minute up to MaxLuckMinutes with a tick on either
\* side, a coarse grid up to 16 days, and their negatives
LuckTicks ==
    LET pos == {m * MinuteTicks + k : m \in 0..MaxLuckMinutes, k \in {-1, 0, 1}}
                   \cup {m * 97 * MinuteTicks + 7 * (m % 9) : m \in 0..240}
    IN  pos \cup {-t : t \in pos}

CallMinutesToLuckYmd ==
    /\ fn = "none"
    /\ \E total \in LuckTicks :
        /\ fn' = "minutes_to_luck_ymd"
        /\ arg' = <<total>>
        /\ ret' = minutes_to_luck_ymd(total)
    /\ UNCHANGED <<search, eph, pc, req, loc, out>>

NextPure ==
    \/ CallDayPillar
    \/ CallHourPillar
    \/ CallLuckDirection
    \/ CallMinutesToLuckYmd

SpecPure == InitPure /\ [][NextPure]_vars

\* the month-term search against an ephemeris that answers every request
\* with the crossing one revolution later than asked
InitFault ==
    /\ eph \in [jit : 0..(TicksPerSecond - 1), strict : BOOLEAN, skip : {1}, fail : {"none"}]
    /\ fn = "none"
    /\ arg = <<>>
    /\ ret = <<>>
    /\ IdleHandler

NextFault == CallMonthPillar

SpecFault == InitFault /\ [][NextFault]_vars

\* the table functions, each called on every input of its domain
CallBuildLuckPillars ==
    /\ fn = "none"
    /\ \E month_stem \in StemSet, month_branch \in BranchSet,
          direction \in {"sunhaeng", "yeokhaeng"} :
        /\ fn' = "build_luck_pillars"
        /\ arg' = <<month_stem, month_branch, direction>>
        /\ ret' = build_luck_pillars(month_stem, month_branch, direction, 10)
    /\ UNCHANGED <<search, eph, pc, req, loc, out>>

\* decadal rows as the luck block builds them, for a few starting ages
SeunStartAges == {0, 29, 360, 1234, 1900}
SeunLuckRows ==
    {LuckRows(1, build_luck_pillars("Bing", "yin", "sunhaeng", 10), a)[i] :
        a \in SeunStartAges, i \in 1..10}

CallSeunTable ==
    /\ fn = "none"
    /\ \E luck_row \in SeunLuckRows, birth_solar_year \in {1984, 2020, 2021},
          day_stem \in {"Jia", "Gui"} :
        /\ fn' = "build_10year_seun_table"
        /\ arg' = <<luck_row, birth_solar_year, day_stem>>
        /\ ret' = build_10year_seun_table(luck_row, birth_solar_year, day_stem)
    /\ UNCHANGED <<search, eph, pc, req, loc, out>>

\* the 22 glyphs and three symbols that are none of them
ElementSymbols == StemSet \cup BranchSet \cup {"", "mok", "X"}

CallGetElementIdx ==
    /\ fn = "none"
    /\ \E char \in ElementSymbols :
        /\ fn' = "get_element_idx"
        /\ arg' = <<char>>
        /\ ret' = get_element_idx(char)
    /\ UNCHANGED <<search, eph, pc, req, loc, out>>

CallGet12Unseong ==
    /\ fn = "none"
    /\ \E stem \in StemSet, branch \in BranchSet :
        /\ fn' = "get_12unseong"
        /\ arg' = <<stem, branch>>
        /\ ret' = get_12unseong(stem, branch)
    /\ UNCHANGED <<search, eph, pc, req, loc, out>>

NextTables ==
    \/ CallBuildLuckPillars
    \/ CallSeunTable
    \/ CallGetElementIdx
    \/ CallGet12Unseong

SpecTables == InitPure /\ [][NextTables]_vars

\* the search button, with and without GEOAPIFY_KEY in the environment
InitSearch ==
    /\ eph = [jit |-> 0, strict |-> FALSE, skip |-> 0, fail |-> "none"]
    /\ fn = "none"
    /\ arg = <<>>
    /\ ret = <<>>
    /\ pc = "idle"
    /\ req = <<>>
    /\ loc = NoLocals
    /\ out = BlankPage
    /\ \E key \in BOOLEAN : search = [IdleSearch EXCEPT !.key = key]

NextSearch ==
    \/ ClickSearch
    \/ GetAttempt
    \/ ChooseResult

SpecSearch == InitSearch /\ [][NextSearch]_vars

\* lines 779-788 and 867 for any UTC birth instant: the four pillars and the
\* decadal pillars of either direction
ChartLuck(p) ==
    [pillars |-> p,
     forward |-> build_luck_pillars(p.month[1], p.month[2], "sunhaeng", 10),
     backward |-> build_luck_pillars(p.month[1], p.month[2], "yeokhaeng", 10)]

ChartPillars(utc_dt, place) ==
    ChartLuck(FourPillars(jd_ut_from_utc(utc_dt), apparent_solar_datetime(utc_dt, place)))

CallChart ==
    /\ fn = "none"
    /\ \E utc_dt \in BirthInstants, place \in {q \in Places : q.tz # ""} :
        /\ fn' = "chart"
        /\ arg' = <<utc_dt, place.name>>
        /\ ret' = ChartPillars(utc_dt, place)
    /\ UNCHANGED <<search, eph, pc, req, loc, out>>

NextChart == CallChart

SpecChart == InitFn /\ [][NextChart]_vars

-----------------------------------------------------------------------------
(* Claims *)

MajorLons == {MAJOR_TERMS[i][2] : i \in 1..12}
MajorBranch(lon) == MAJOR_TERMS[CHOOSE i \in 1..12 : MAJOR_TERMS[i][2] = lon][3]
MajorCrossings == UNION {Crossings(lon) : lon \in MajorLons}
LonOfCrossing(c) == CHOOSE lon \in {SOLAR_TERMS_24[i][2] : i \in 1..24} : c \in Crossings(lon)

\* C2: month_pillar selects the latest crossing of a major term that is at or
\* before the birth instant; the month branch is the branch tagged on that
\* term, and no major-term crossing lies strictly between the selected
\* crossing and the birth instant.
C2_MonthLatestCrossing ==
    fn = "month_pillar" =>
        LET jd == arg[1]
            sel == ret.term_jd
        IN  /\ sel \in MajorCrossings
            /\ sel <= jd
            /\ \A c \in MajorCrossings : c <= jd => c <= sel
            /\ ~ \E c \in MajorCrossings : sel < c /\ c < jd
            /\ ret.branch = MajorBranch(LonOfCrossing(sel))

\* C2 witness: a birth with two major-term crossings inside its 40-day
\* window, resolved to the later one
C2_Witness ==
    /\ fn = "month_pillar"
    /\ \E c \in MajorCrossings :
           c >= arg[1] - 40 * DayTicks /\ c < ret.term_jd /\ ret.term_jd <= arg[1]

\* C4: year_pillar's reference year is the civil (UTC) year of birth when the
\* birth instant is at or after that year's 315-degree crossing and the year
\* before otherwise; stem and branch are at ((y - 1984) mod 60) mod 10 and
\* mod 12.
C4_YearPillar ==
    fn = "year_pillar" =>
        LET jd == arg[1]
            civil == YearOf(jd)
            lichun == CHOOSE c \in Crossings(315) : YearOf(c) = civil
            y == IF jd >= lichun THEN civil ELSE civil - 1
        IN  /\ ret.year = y
            /\ ret.stem = STEMS[(((y - 1984) % 60) % 10) + 1]
            /\ ret.branch = BRANCHES[(((y - 1984) % 60) % 12) + 1]

\* C4 witnesses: a birth before its civil year's crossing, and a birth exactly
\* at the crossing
C4_Witness ==
    /\ fn = "year_pillar"
    /\ ret.year = YearOf(arg[1]) - 1
    /\ ret.stem = "Ji"


\* C3: when the search finds no major-term crossing at or before the birth
\* instant, month_pillar fails with TermNotFound and returns no pillar.
C3_TermNotFound ==
    (fn = "month_pillar" /\ ~ret.found) => ret.raised = "TermNotFound"

\* the 60 sexagenary pairs: the index of a pair of equal parity
PairIndex(stem, branch) ==
    CHOOSE i \in 0..59 : i % 10 = StemIndex(stem) /\ i % 12 = BranchIndex(branch)

\* the calendar day after <<y, m, d>>, by the lengths of the months
NextDay(date) ==
    IF date[3] < DaysInMonth(date[1], date[2]) THEN <<date[1], date[2], date[3] + 1>>
    ELSE IF date[2] < 12 THEN <<date[1], date[2] + 1, 1>>
    ELSE <<date[1] + 1, 1, 1>>

\* C5: for a date D, day_pillar of a LAT time at or after 23:00 uses the
\* effective date D+1 and returns the pair that follows (index + 1 mod 60)
\* the pair of a LAT time before 23:00, whose effective date is D itself.
C5_EarlyZiNextPair ==
    fn = "day_pillar" =>
        LET D == DateOf(arg[1])
            early == ret[1]
            late == ret[2]
        IN  /\ early.date = D
            /\ late.date = NextDay(D)
            /\ PairIndex(late.stem, late.branch)
                   = (PairIndex(early.stem, early.branch) + 1) % 60

C5_Witness ==
    /\ fn = "day_pillar"
    /\ arg[3] = 23 * HourTicks
    /\ arg[2] = 23 * HourTicks - 1
    /\ ret[1].date = <<2020, 12, 31>>
    /\ ret[2].date = <<2021, 1, 1>>
    /\ ret[2].jdn = ret[1].jdn + 1
    /\ ret[2].stem # ret[1].stem

\* C6: hour_pillar's branch index is floor((minutesSinceMidnight + 60) / 120)
\* mod 12: 23:00-00:59 is branch 0, branch k > 0 is the 2-hour window that
\* starts at the odd hour 2k - 1; the stem index is (index of the day stem's
\* branch-0 hour stem + branch index) mod 10.
C6_HourPillar ==
    fn = "hour_pillar" =>
        LET tod == TimeOfDay(arg[1])
            k == BranchIndex(ret.branch)
            zi == D_STEM_TO_ZI_HOUR_STEM[arg[2]]
        IN  /\ k = ((tod + 60 * MinuteTicks) \div (120 * MinuteTicks)) % 12
            /\ (k = 0) <=> (tod >= 23 * HourTicks \/ tod < HourTicks)
            /\ (k > 0) => /\ (2 * k - 1) * HourTicks <= tod
                          /\ tod < (2 * k + 1) * HourTicks
            /\ StemIndex(ret.stem) = (StemIndex(zi) + k) % 10

C6_Witness ==
    /\ fn = "hour_pillar"
    /\ TimeOfDay(arg[1]) = 23 * HourTicks
    /\ ret.branch = "zi"
    /\ arg[2] = "Gui"
    /\ ret.stem = "Ren"


\* C7: luck_direction is forward exactly for (Yang year stem and male) or
\* (Yin year stem and female), over all stems and both genders; changing only
\* the gender, or only the polarity of the year stem, changes the direction.
C7_LuckDirection ==
    fn = "luck_direction" =>
        LET yang == StemIndex(arg[1]) % 2 = 0
            male == arg[2] = "nam"
        IN  /\ ret \in {"sunhaeng", "yeokhaeng"}
            /\ (ret = "sunhaeng") <=> ((yang /\ male) \/ (~yang /\ ~male))
            /\ luck_direction(arg[1], IF male THEN "yeo" ELSE "nam") # ret
            /\ \A s \in StemSet :
                   (StemIndex(s) % 2 # StemIndex(arg[1]) % 2)
                       => luck_direction(s, arg[2]) # ret

C7_Witness ==
    /\ fn = "luck_direction"
    /\ arg = <<"Gui", "yeo">>
    /\ ret = "sunhaeng"

All24Crossings == UNION {Crossings(SOLAR_TERMS_24[i][2]) : i \in 1..24}

\* C8: adjacent_solar_term returns, forward, the earliest crossing of the 24
\* terms strictly after the birth instant and, backward, the latest one at or
\* before it; no crossing lies strictly between birth and the returned one.
C8_AdjacentTerm ==
    fn = "adjacent_solar_term" =>
        LET jd == arg[1]
            jx == ret[3]
        IN  /\ jx \in Crossings(ret[2])
            /\ arg[2] => /\ jx > jd
                         /\ \A c \in All24Crossings : c > jd => jx <= c
                         /\ ~ \E c \in All24Crossings : jd < c /\ c < jx
            /\ ~arg[2] => /\ jx <= jd
                          /\ \A c \in All24Crossings : c <= jd => c <= jx
                          /\ ~ \E c \in All24Crossings : jx < c /\ c < jd

\* C8 witness: a birth exactly at a crossing, searched both ways
C8_Witness ==
    /\ fn = "adjacent_solar_term"
    /\ arg[1] \in All24Crossings
    /\ arg[2]
    /\ ret[3] > arg[1] + 14 * DayTicks

C8_WitnessBackward ==
    /\ fn = "adjacent_solar_term"
    /\ arg[1] \in All24Crossings
    /\ ~arg[2]
    /\ ret[3] = arg[1]

\* C10: minutes_to_luck_ymd(m) has years >= 0, 0 <= months < 12,
\* 0 <= days < 30, and years*4320 + months*360 + days*12 within 6 minutes of
\* |m|; a negative m gives the result of -m.
C10_LuckYmd ==
    fn = "minutes_to_luck_ymd" =>
        LET m == arg[1]
            value == (ret[1] * 4320 + ret[2] * 360 + ret[3] * 12) * MinuteTicks
        IN  /\ ret[1] >= 0
            /\ 0 <= ret[2] /\ ret[2] < 12
            /\ 0 <= ret[3] /\ ret[3] < 30
            /\ Abs(value - Abs(m)) <= 6 * MinuteTicks
            /\ m < 0 => ret = minutes_to_luck_ymd(-m)

\* C10 witness: 29.5 luck-days short of a year round up through both carries
C10_Witness ==
    /\ fn = "minutes_to_luck_ymd"
    /\ arg[1] = (4320 - 6) * MinuteTicks
    /\ ret = <<1, 0, 0>>


\* the UTC birth instant the handler derives from the request
RequestUtc ==
    IF req.basis = "standard" THEN LocalToUtc(loc.tz_name, loc.naive)
    ELSE loc.naive - LonTicks(req.place)

\* the luck block is left for the tail only through its handler: line 903
\* raises on every run that reaches it
LuckRaises ==
    /\ pc \in {"luck_direction", "luck_term", "luck_delta", "luck_age", "seun"}
    /\ pc' = "tail"

\* C1: for a request whose four pillars were computed, a step of the
\* luck-cycle computation that raises is caught and reported as a warning
\* only: the four pillars shown stay those of the request, unchanged, and the
\* request is not reported as a failed chart computation.
C1_LuckFailureIsolated ==
    /\ [](out.success =>
            /\ out.tiles = FourPillars(jd_ut_from_utc(RequestUtc),
                                       apparent_solar_datetime(RequestUtc, req.place))
            /\ out.error = "")
    /\ [][LuckRaises =>
            /\ out'.luck_warning # ""
            /\ out'.error = ""
            /\ out'.success
            /\ out'.tiles = out.tiles
            /\ loc'.pillars = loc.pillars]_vars

\* C1 witness: the reference-term search raised after the pillars were shown
C1_Witness ==
    /\ pc = "done"
    /\ out.success
    /\ out.luck_warning = "swe.Error"
    /\ out.tiles.year = <<"Xin", "chou">>

\* C9: the deltaMinutes passed to the starting-age conversion is >= 0 under
\* both clock bases.
C9_DeltaNonNegative ==
    pc = "luck_age" => loc.delta >= 0

\* C11: for every month pillar X (any stem and any branch) build_luck_pillars
\* Forward yields F1..F10 with Fi = X stepped by +i (stem mod 10, branch mod
\* 12), Backward yields Bi = X stepped by -i, and Backward built from F10 is
\* F9, F8, ..., F1 and then X.
C11_LuckPillarsMirror ==
    fn = "build_luck_pillars" =>
        LET si == StemIndex(arg[1])
            bi == BranchIndex(arg[2])
            F == build_luck_pillars(arg[1], arg[2], "sunhaeng", 10)
            B == build_luck_pillars(arg[1], arg[2], "yeokhaeng", 10)
            M == build_luck_pillars(F[10][1], F[10][2], "yeokhaeng", 10)
        IN  /\ ret = IF arg[3] = "sunhaeng" THEN F ELSE B
            /\ Len(F) = 10 /\ Len(B) = 10 /\ Len(M) = 10
            /\ \A i \in 1..10 :
                 /\ F[i] = <<STEMS[((si + i) % 10) + 1], BRANCHES[((bi + i) % 12) + 1]>>
                 /\ B[i] = <<STEMS[((si + 10 - i) % 10) + 1],
                             BRANCHES[((bi + 12 - i) % 12) + 1]>>
            /\ \A i \in 1..9 : M[i] = F[10 - i]
            /\ M[10] = <<arg[1], arg[2]>>

\* C11 witness: Backward from Jia-zi wraps both cycles below index 0
C11_Witness ==
    /\ fn = "build_luck_pillars"
    /\ arg = <<"Jia", "zi", "yeokhaeng">>
    /\ ret[1] = <<"Gui", "hai">>
    /\ ret[10] = <<"Jia", "yin">>

\* C12: for every selected decadal pillar i the first year of its annual
\* table is birthSolarYear + floor(startAge of pillar i), startAge being the
\* start age stored in that decadal row.
C12_SeunStartYear ==
    fn = "build_10year_seun_table" =>
        ret.start_year = arg[2] + (arg[1].sijak_se \div 360)

\* C13: whenever the decadal pillars were computed and one is selected, the
\* annual table has exactly 10 rows for 10 consecutive years, each with the
\* pair of ((year - 1984) mod 60), and the operation does not end in an error.
C13_SeunTenRows ==
    (pc = "done" /\ out.luck # <<>>) =>
        /\ Len(out.seun) = 10
        /\ out.luck_warning = ""
        /\ \A i \in 1..10 :
             /\ out.seun[i].year = out.seun[1].year + (i - 1)
             /\ out.seun[i].ganji =
                    <<STEMS[(((out.seun[i].year - 1984) % 60) % 10) + 1],
                      BRANCHES[(((out.seun[i].year - 1984) % 60) % 12) + 1]>>

\* the parser's message a time string must be rejected with, "" when the
\* string is well formed and in range
RejectionOf(parts) ==
    IF Len(parts) < 2 \/ Len(parts) > 3 THEN "format"
    ELSE IF \E i \in 1..Len(parts) : parts[i].digits = FALSE THEN "digits"
    ELSE IF \/ parts[1].n < 0 \/ parts[1].n > 23
            \/ parts[2].n < 0 \/ parts[2].n > 59
            \/ (Len(parts) = 3 /\ (parts[3].n < 0 \/ parts[3].n > 59))
         THEN "range"
    ELSE ""

\* C14: a request whose time string is malformed or out of range is
\* rejected with the parser's message before any timezone lookup, Julian-day
\* conversion, crossing search or pillar computation runs, and no pillar is
\* produced for it.
C14_BadTimeRejectedFirst ==
    /\ [](pc \notin {"idle", "parse"} /\ RejectionOf(req.time_str) # ""
            => /\ pc = "done"
               /\ loc = NoLocals
               /\ out = [BlankPage EXCEPT !.error = RejectionOf(req.time_str)])
    /\ [](pc \notin {"idle", "parse", "done"} => RejectionOf(req.time_str) = "")

\* C14 witness: 24:00 was rejected for its range
C14_Witness ==
    /\ pc = "done"
    /\ req.time_str = <<Part(24), Part(0)>>
    /\ out.error = "range"
    /\ out.tiles = <<>>

\* the element of each glyph as tabulated: wood 0, fire 1, earth 2, metal 3,
\* water 4
TabulatedElement(char) ==
    CASE char \in {"Jia", "Yi", "yin", "mao"} -> 0
      [] char \in {"Bing", "Ding", "si", "wu"} -> 1
      [] char \in {"Wu", "Ji", "chou", "chen", "wei", "xu"} -> 2
      [] char \in {"Geng", "Xin", "shen", "you"} -> 3
      [] char \in {"Ren", "Gui", "zi", "hai"} -> 4

\* C15: get_element_idx returns the tabulated element for each of the 10
\* stems and 12 branches, and fails with an InvalidSymbol error for any
\* symbol that is not one of these 22 glyphs.
C15_ElementOf ==
    fn = "get_element_idx" =>
        IF arg[1] \in StemSet \cup BranchSet
        THEN ret.raised = "" /\ ret.value = TabulatedElement(arg[1])
        ELSE ret.raised = "InvalidSymbol"

\* the branch at which each stem is in its growth stage
GrowthBranch(stem) ==
    CASE stem = "Jia" -> "hai" [] stem = "Yi" -> "wu" [] stem = "Bing" -> "yin"
      [] stem = "Ding" -> "you" [] stem = "Wu" -> "yin" [] stem = "Ji" -> "you"
      [] stem = "Geng" -> "si" [] stem = "Xin" -> "zi" [] stem = "Ren" -> "shen"
      [] stem = "Gui" -> "mao"

\* C16: for each stem get_12unseong(stem, .) maps the 12 branches one-to-one
\* onto the 12 stage names, the stem's own starting branch maps to the growth
\* stage (position index 3), and a value is returned for all 120 pairs.
C16_UnseongBijection ==
    fn = "get_12unseong" =>
        LET stages == {UNSEONG_ORDER[i] : i \in 1..12}
            image == {get_12unseong(arg[1], b) : b \in BranchSet}
        IN  /\ ret \in stages
            /\ ret = get_12unseong(arg[1], arg[2])
            /\ image = stages
            /\ Cardinality(image) = 12
            /\ \A b1, b2 \in BranchSet :
                 get_12unseong(arg[1], b1) = get_12unseong(arg[1], b2) => b1 = b2
            /\ get_12unseong(arg[1], GrowthBranch(arg[1])) = UNSEONG_ORDER[4]
            /\ UNSEONG_ORDER[4] = "jangsaeng"

\* C16 witness: a Yin stem, counted backward from its starting branch
C16_Witness ==
    /\ fn = "get_12unseong"
    /\ arg = <<"Yi", "si">>
    /\ ret = "mogyok"

\* a step of the retry helper: one more attempt of some provider was made
AttemptOf(p) == search'.attempts[p] = search.attempts[p] + 1

\* C17: every request of geocode is attempted at most 2 (Geoapify) or 3
\* (Open-Meteo, Nominatim) times; the retry helper stops at the first attempt
\* that returns a response and raises the last failure after the last attempt
\* fails; a failure that escapes geocode is reported at the search button
\* and leaves the stored results and latitude/longitude unchanged.
C17_BoundedRetries ==
    /\ [](/\ search.attempts["geoapify"] <= 2
          /\ search.attempts["openmeteo"] <= 3
          /\ search.attempts["nominatim"] <= 3)
    /\ [][\A p \in Providers : AttemptOf(p) =>
            LET bound == IF p = "geoapify" THEN 2 ELSE 3
                failed == search'.last # search.last
            IN  /\ search.pc = p
                /\ ~failed => search'.pc # p
                /\ (failed /\ search'.attempts[p] < bound) =>
                        search'.pc = p /\ search'.error = <<>>
                /\ (failed /\ search'.attempts[p] = bound) =>
                        /\ search'.last[1] = p /\ search'.last[2] = bound
                        /\ IF p = "openmeteo"
                           THEN search'.pc = "nominatim" /\ search'.error = <<>>
                           ELSE search'.pc = "done" /\ search'.error = search'.last]_vars
    /\ [][search'.error # <<>> =>
            /\ search'.pc = "done"
            /\ search'.session = search.session]_vars
    /\ [][(search.pc \in Providers /\ search'.pc \notin Providers) =>
            search'.pc = "done"]_vars

\* C17 witness: Open-Meteo and then Nominatim failed three times each, the
\* failure was reported, and the coordinates chosen earlier are still stored
C17_Witness ==
    /\ search.pc = "done"
    /\ search.attempts = [geoapify |-> 0, openmeteo |-> 3, nominatim |-> 3]
    /\ search.error = <<"nominatim", 3, "timeout">>
    /\ search.session.coords = <<"Seoul", 2>>

\* a stem and a branch whose indices have the same parity
ValidPair(p) ==
    /\ \E i \in 1..10 : STEMS[i] = p[1]
    /\ \E j \in 1..12 : BRANCHES[j] = p[2]
    /\ \A i \in 1..10, j \in 1..12 :
         (STEMS[i] = p[1] /\ BRANCHES[j] = p[2]) => (i % 2 = j % 2)

\* C18: each pillar the program produces (year, month, day, hour, and each
\* of the 10 decadal pillars in either direction) is one of the 60 valid
\* sexagenary pairs: its stem index and branch index have the same parity.
C18_PillarParity ==
    fn = "chart" =>
        /\ ValidPair(ret.pillars.year)
        /\ ValidPair(ret.pillars.month)
        /\ ValidPair(ret.pillars.day)
        /\ ValidPair(ret.pillars.hour)
        /\ Len(ret.forward) = 10 /\ Len(ret.backward) = 10
        /\ \A i \in 1..10 : ValidPair(ret.forward[i]) /\ ValidPair(ret.backward[i])

\* C18 witness: a birth in January 2020, before ipchun, in the chou month
C18_Witness ==
    /\ fn = "chart"
    /\ ret.pillars.year = <<"Ji", "hai">>
    /\ ret.pillars.month = <<"Ding", "chou">>
    /\ ret.backward[1] = <<"Bing", "zi">>
    /\ ret.forward[10] = <<"Ding", "hai">>

====
